---- MODULE Spec2Model ----
(***************************************************************************)
(* ImgComp: the image-processing pipeline of util/utils.go.                *)
(*                                                                         *)
(* Two pure functions are modelled, each under its own specification whose *)
(* initial states draw the inputs and whose action applies the function:   *)
(*   Spec        ComputeImageDiffFast (with imaging.Resize behind it)      *)
(*   SpecBounds  GetScaledBounds (float32 arithmetic, bit-exact)           *)
(***************************************************************************)
EXTENDS Integers, Sequences, FiniteSets, TLC

VARIABLES
    pc,           \* position of the harness: "ready" -> "done"
    img1, img2,   \* the two images handed to ComputeImageDiffFast
    secondUsed,        \* the second image as it is compared
    algo,         \* ScalingAlgorithm
    monochrome,   \* differenceAsMonochrome
    diff,         \* the visualization returned
    mae,          \* the metric returned: the quotient mae.num / mae.den
    pixelCount,   \* the pixel count returned
    srcW, srcH,   \* Dx, Dy of the image handed to GetScaledBounds
    sizeX, sizeY, \* the two float32 values GetScaledBounds returns
    cropSrc,      \* the image handed to CropImageFast
    cropRatio,    \* its ratio, in hundredths
    croppedImage, \* CropImageFast's canvas as handed to RescaleImageFast
    cropW, cropH, \* the width and height RescaleImageFast asks resize.Resize for
    disk,         \* the files on disk: path -> content
    loadPath,     \* the path handed to LoadImage
    diskBefore,   \* the files on disk when LoadImage was called
    loadRes,      \* what LoadImage returned
    mainPc,       \* main: "start", "exited", "wait", "running", "closed",
                  \* "panicked"
    useTrash,     \* the flag -use-trash
    trashInstalled, \* whether exec.LookPath finds the trash tool
    cliPaths,     \* the flags -image1 and -image2
    image1, image2,         \* the globals image1, image2 (Nil: nil pointer)
    image1Path, image2Path, \* the globals image1Path, image2Path
    showMonochrome,         \* pixelWiseTab.showMonochrome
    wgCount,      \* the counter of loadingWaitGroup
    loader,       \* the two goroutines main starts: position, image read,
                  \* number of Done() calls
    rendered,     \* what the last renderComparison computed and displayed
    ignoredFile,  \* the characters of ignored_images.txt
    deleteAttempts, \* the deletions attempted: <<tool, path>>
    lastLoadFailed, \* the loadAndRenderImage that returned last took an
                    \* error return (dialog.ShowError)
    drop,           \* the loadAndRenderImage of a dropped file: where it is,
                    \* its path and index, the image LoadImage returned
    objects,      \* len(imageContainer.Objects) of the slider tab
    renderPc,     \* renderComparison on the slider tab: "idle", "removed"
    sliderValue,  \* the value last handed to slider.OnChanged, in hundredths
    reqs,         \* the timers made by OnChanged, in order: value and state
    shown,        \* the crop that is Objects[1].Image: its ratio, its maker
    rerendered,   \* Compare has run since the last timer was made
    renderMae,    \* the sign of mae in the renderComparison last started
    refreshQueue, \* the requests whose canvas.Refresh closure fyne.Do has
                  \* queued for the UI goroutine, oldest first
    sliderCrashed \* a timer callback indexed Objects[1] out of range

diffVars == <<img1, img2, secondUsed, algo, monochrome, diff, mae, pixelCount>>
boundsVars == <<srcW, srcH, sizeX, sizeY>>
cropVars == <<cropSrc, cropRatio, croppedImage, cropW, cropH>>
loadVars == <<loadPath, diskBefore, loadRes>>
appVars == <<mainPc, useTrash, trashInstalled, cliPaths, image1, image2,
             image1Path, image2Path, showMonochrome, wgCount, loader,
             rendered, ignoredFile, deleteAttempts, lastLoadFailed, drop>>
sliderVars == <<objects, renderPc, sliderValue, reqs, shown, rerendered,
                renderMae, refreshQueue, sliderCrashed>>

vars == <<pc, diffVars, boundsVars, cropVars, disk, loadVars, appVars,
          sliderVars>>

(***************************************************************************)
(* Program constants.                                                      *)
(***************************************************************************)
ImageMaxWidth == 400
ImageMaxHeight == 400

Bilinear == 0
NearestNeighbor == 1

(***************************************************************************)
(* float32.  A non-negative float32 is <<m, e>> with value m * 2^e and     *)
(* 2^23 <= m < 2^24 (a normal number), or <<0, 0>> for zero.  The values   *)
(* of GetScaledBounds stay far from the subnormal and overflow ranges.     *)
(***************************************************************************)
Two23 == 2^23
Two24 == 2^24

F32Zero == <<0, 0>>

RECURSIVE F32Norm(_, _)
F32Norm(m, e) == IF m >= Two23 THEN <<m, e>> ELSE F32Norm(2 * m, e - 1)

\* float32(n) for an int 0 <= n < 2^24: exact.
F32FromInt(n) == IF n = 0 THEN F32Zero ELSE F32Norm(n, 0)

\* k steps of binary long division: <<floor((q*d + r) * 2^k / d), remainder>>
RECURSIVE DivBits(_, _, _, _)
DivBits(r, d, q, k) ==
    IF k = 0 THEN <<q, r>>
    ELSE IF 2 * r >= d THEN DivBits(2 * r - d, d, 2 * q + 1, k - 1)
         ELSE DivBits(2 * r, d, 2 * q, k - 1)

\* x / y in float32: the quotient rounded to nearest, ties to even (y # 0).
F32Div(x, y) ==
    IF x[1] = 0 THEN F32Zero
    ELSE LET s     == IF x[1] >= y[1] THEN 24 ELSE 25
             qr    == DivBits(x[1] % y[1], y[1], x[1] \div y[1], s)
             mant  == qr[1] \div 2
             guard == qr[1] % 2
             up    == guard = 1 /\ (qr[2] # 0 \/ mant % 2 = 1)
             m1    == IF up THEN mant + 1 ELSE mant
             e1    == x[2] - y[2] - s + 1
         IN  IF m1 = Two24 THEN <<Two23, e1 + 1>> ELSE <<m1, e1>>

F32Lt(x, y) ==
    IF y[1] = 0 THEN FALSE
    ELSE IF x[1] = 0 THEN TRUE
    ELSE x[2] < y[2] \/ (x[2] = y[2] /\ x[1] < y[1])

F32Le(x, y) == x = y \/ F32Lt(x, y)

(***************************************************************************)
(* GetScaledBounds (util/utils.go:182-203), on Dx = w and Dy = h.          *)
(***************************************************************************)
ScaleX(w) == F32Div(F32FromInt(w), F32FromInt(ImageMaxWidth))
ScaleY(h) == F32Div(F32FromInt(h), F32FromInt(ImageMaxHeight))

\* a variant that tests the width alone before scaling
GetScaledBounds_WidthOnly(w, h) ==
    IF w > ImageMaxWidth
    THEN IF F32Lt(ScaleY(h), ScaleX(w))
         THEN <<F32FromInt(ImageMaxWidth), F32Div(F32FromInt(h), ScaleX(w))>>
         ELSE <<F32Div(F32FromInt(w), ScaleY(h)), F32FromInt(ImageMaxHeight)>>
    ELSE <<F32FromInt(w), F32FromInt(h)>>

GetScaledBounds(w, h) ==
    IF w > ImageMaxWidth \/ h > ImageMaxHeight
    THEN IF F32Lt(ScaleY(h), ScaleX(w))
         THEN <<F32FromInt(ImageMaxWidth), F32Div(F32FromInt(h), ScaleX(w))>>
         ELSE <<F32Div(F32FromInt(w), ScaleY(h)), F32FromInt(ImageMaxHeight)>>
    ELSE <<F32FromInt(w), F32FromInt(h)>>

(***************************************************************************)
(* Images.  A rectangle is <<x0, y0, x1, y1>> (Min inclusive, Max          *)
(* exclusive).  An image is [rect, pix]: pix maps each point of rect to    *)
(* the <<r, g, b, a>> that At(x, y).RGBA() returns there, 16 bits a        *)
(* channel, alpha-premultiplied.                                           *)
(***************************************************************************)
Dx(r) == r[3] - r[1]
Dy(r) == r[4] - r[2]
RectEmpty(r) == r[1] >= r[3] \/ r[2] >= r[4]
\* image.Rectangle.Eq: the same set of points; all empty rectangles are equal.
RectEq(r, s) == r = s \/ (RectEmpty(r) /\ RectEmpty(s))
Points(r) == {<<x, y>> : x \in r[1] .. (r[3] - 1), y \in r[2] .. (r[4] - 1)}

ZeroColor == <<0, 0, 0, 0>>
\* At outside the bounds returns the zero colour.
At(img, p) == IF p \in DOMAIN img.pix THEN img.pix[p] ELSE ZeroColor

Min2(a, b) == IF a < b THEN a ELSE b
Max2(a, b) == IF a > b THEN a ELSE b

RECURSIVE SumTo(_, _)
\* f[0] + ... + f[n]
SumTo(f, n) == IF n < 0 THEN 0 ELSE f[n] + SumTo(f, n - 1)

(***************************************************************************)
(* imaging.Resize, which ComputeImageDiffFast calls at util/utils.go:93.   *)
(* It reads the source as 8-bit non-premultiplied NRGBA and returns an     *)
(* *image.NRGBA at the origin.                                             *)
(***************************************************************************)
\* the scanner's conversion of one pixel to NRGBA bytes
ToNRGBA(c) ==
    IF c[4] = 65535 THEN <<c[1] \div 256, c[2] \div 256, c[3] \div 256, 255>>
    ELSE IF c[4] = 0 THEN ZeroColor
    ELSE <<((c[1] * 65535) \div c[4]) \div 256,
           ((c[2] * 65535) \div c[4]) \div 256,
           ((c[3] * 65535) \div c[4]) \div 256,
           c[4] \div 256>>

\* color.NRGBA.RGBA(): what At(x, y).RGBA() returns on the resized image
NRGBAToRGBA(n) ==
    <<(n[1] * 257 * n[4]) \div 255, (n[2] * 257 * n[4]) \div 255,
      (n[3] * 257 * n[4]) \div 255, n[4] * 257>>

\* int64(x + 0.5) clamped to 0..255, for x = num / den >= 0
ClampRound(num, den) == Min2(255, (2 * num + den) \div (2 * den))

\* precomputeWeights with the Linear kernel, times 2 * max(src, dst):
\* the weight of source index u in destination index v
LinearWeight(u, v, srcSize, dstSize) ==
    LET s  == Max2(srcSize, dstSize)
        d  == 2 * dstSize * u - ((2 * v + 1) * srcSize - dstSize)
        ad == IF d < 0 THEN -d ELSE d
    IN  Max2(0, 2 * s - ad)

\* one destination pixel of a Linear pass from the NRGBA pixels line[0..n-1]
LinearPixel(line, n, v, dstSize) ==
    LET W     == [u \in 0 .. (n - 1) |-> LinearWeight(u, v, n, dstSize)]
        wsum  == SumTo(W, n - 1)
        AW    == [u \in 0 .. (n - 1) |-> line[u][4] * W[u]]
        a     == SumTo(AW, n - 1)
        Ch(k) == ClampRound(SumTo([u \in 0 .. (n - 1) |-> line[u][k] * AW[u]],
                                  n - 1), a)
    IN  IF a = 0 THEN ZeroColor
        ELSE <<Ch(1), Ch(2), Ch(3), ClampRound(a, wsum)>>

\* resizeHorizontal / resizeVertical on a grid g[<<x, y>>] of NRGBA pixels
ResizeHorizontal(g, w, h, dstW) ==
    [p \in Points(<<0, 0, dstW, h>>) |->
        LinearPixel([u \in 0 .. (w - 1) |-> g[<<u, p[2]>>]], w, p[1], dstW)]

ResizeVertical(g, w, h, dstH) ==
    [p \in Points(<<0, 0, w, dstH>>) |->
        LinearPixel([u \in 0 .. (h - 1) |-> g[<<p[1], u>>]], h, p[2], dstH)]

\* resizeNearest: the source pixel under the centre of each destination pixel
ResizeNearest(g, w, h, dstW, dstH) ==
    [p \in Points(<<0, 0, dstW, dstH>>) |->
        g[<<((2 * p[1] + 1) * w) \div (2 * dstW),
            ((2 * p[2] + 1) * h) \div (2 * dstH)>>]]

NRGBAImage(w, h, g) ==
    [rect |-> <<0, 0, w, h>>,
     pix  |-> [p \in Points(<<0, 0, w, h>>) |-> NRGBAToRGBA(g[p])]]

EmptyNRGBA == [rect |-> <<0, 0, 0, 0>>, pix |-> <<>>]

Resize(img, width, height, filter) ==
    LET w == Dx(img.rect)
        h == Dy(img.rect)
        \* a zero width or height keeps the aspect ratio, at least 1 px
        dstW == IF width = 0 /\ h > 0
                THEN Max2(1, (2 * height * w + h) \div (2 * h)) ELSE width
        dstH == IF height = 0 /\ w > 0
                THEN Max2(1, (2 * width * h + w) \div (2 * w)) ELSE height
        g == [p \in Points(<<0, 0, w, h>>) |->
                 ToNRGBA(img.pix[<<img.rect[1] + p[1], img.rect[2] + p[2]>>])]
    IN  IF width < 0 \/ height < 0 \/ (width = 0 /\ height = 0) THEN EmptyNRGBA
        ELSE IF w <= 0 \/ h <= 0 THEN EmptyNRGBA
        ELSE IF filter = NearestNeighbor
             THEN NRGBAImage(dstW, dstH, ResizeNearest(g, w, h, dstW, dstH))
        ELSE IF w # dstW /\ h # dstH
             THEN NRGBAImage(dstW, dstH,
                     ResizeVertical(ResizeHorizontal(g, w, h, dstW), dstW, h, dstH))
        ELSE IF w # dstW
             THEN NRGBAImage(dstW, dstH, ResizeHorizontal(g, w, h, dstW))
        ELSE IF h # dstH
             THEN NRGBAImage(dstW, dstH, ResizeVertical(g, w, h, dstH))
        ELSE NRGBAImage(dstW, dstH, g)

(***************************************************************************)
(* ComputeImageDiffFast (util/utils.go:77-142).                            *)
(***************************************************************************)
\* a variant that forgets the second branch
absDiff_OneSided(a, b) == IF a > b THEN a - b ELSE 0

\* absDiff (util/utils.go:68-73), on uint32
absDiff(a, b) == IF a > b THEN a - b ELSE b - a

\* variants that round to nearest, and that keep all 16 bits
ChannelDelta_Rounded(a, b) == (absDiff(a, b) + 128) \div 256
ChannelDelta_NoShift(a, b) == absDiff(a, b)

\* dr, dg, db of one pixel: absDiff(..) >> 8
ChannelDelta(a, b) == absDiff(a, b) \div 256

\* a variant without the clamp: uint8(..) keeps the low 8 bits
Amplify_NoClamp(d) == (d * 5) % 256

\* math.Min(float64(d) * amplificationFactor, 255), then uint8(..)
Amplify(d) == Min2(d * 5, 255)

\* the color.RGBA that diff.Set stores for one pixel (8 bits a channel)
DiffColor(dr, dg, db, mono) ==
    IF mono
    THEN IF dr = 0 /\ dg = 0 /\ db = 0 THEN <<0, 0, 0, 255>>
         ELSE <<240, 0, 0, 255>>
    ELSE <<Amplify(dr), Amplify(dg), Amplify(db), 255>>

\* a variant whose loops run to Max inclusive
PointSeq_Inclusive(r) ==
    [i \in 1 .. ((Dx(r) + 1) * (Dy(r) + 1)) |->
        <<r[1] + ((i - 1) % (Dx(r) + 1)), r[2] + ((i - 1) \div (Dx(r) + 1))>>]

\* the points of the loop nest, in the order it visits them
PointSeq(r) ==
    IF RectEmpty(r) THEN <<>>
    ELSE [i \in 1 .. (Dx(r) * Dy(r)) |->
             <<r[1] + ((i - 1) % Dx(r)), r[2] + ((i - 1) \div Dx(r))>>]

\* the loop nest from its i-th point on; acc is [pix, totalDiff, pixelCount]
RECURSIVE DiffLoop(_, _, _, _, _, _)
DiffLoop(a, b, mono, pts, i, acc) ==
    IF i > Len(pts) THEN acc
    ELSE LET p  == pts[i]
             dr == ChannelDelta(At(a, p)[1], At(b, p)[1])
             dg == ChannelDelta(At(a, p)[2], At(b, p)[2])
             db == ChannelDelta(At(a, p)[3], At(b, p)[3])
         IN  DiffLoop(a, b, mono, pts, i + 1,
                 [pix        |-> (p :> DiffColor(dr, dg, db, mono)) @@ acc.pix,
                  totalDiff  |-> acc.totalDiff + dr + dg + db,
                  pixelCount |-> acc.pixelCount + 1])

\* the second image as the loop reads it: resampled when the bounds differ
Reconciled(i1, i2, alg) ==
    IF ~RectEq(i2.rect, i1.rect)
    THEN Resize(i2, Dx(i1.rect), Dy(i1.rect),
                IF alg = NearestNeighbor THEN NearestNeighbor ELSE Bilinear)
    ELSE i2

\* mae is the float64 quotient totalDiff / (pixelCount * 3), kept as the
\* pair of its operands: den = 0 is 0/0, a NaN.
ComputeImageDiffFast(i1, i2, alg, mono) ==
    LET bounds == i1.rect
        img22  == Reconciled(i1, i2, alg)
        r      == DiffLoop(i1, img22, mono, PointSeq(bounds), 1,
                           [pix |-> <<>>, totalDiff |-> 0, pixelCount |-> 0])
    IN  [diff       |-> [rect |-> bounds, pix |-> r.pix],
         mae        |-> [num |-> r.totalDiff, den |-> r.pixelCount * 3],
         pixelCount |-> r.pixelCount]

(***************************************************************************)
(* Spec: ComputeImageDiffFast on every pair of images of at most MaxPixels *)
(* pixels over Palette, with either algorithm and either display mode.     *)
(***************************************************************************)
MaxPixels == 2

\* the values of the result variables before the call
NoImage == [rect |-> <<0, 0, 0, 0>>, pix |-> <<>>]
NoMae == [num |-> 0, den |-> 1]

\* Tint differs from Black by 16, 255 and 0 after the shift by 8 bits;
\* Transparent differs from Black in alpha alone.
Black       == <<0, 0, 0, 65535>>
Transparent == <<0, 0, 0, 0>>
Tint        == <<4096, 65535, 255, 65535>>
Palette == {Black, Transparent, Tint}

Shapes == {s \in (0 .. MaxPixels) \X (0 .. MaxPixels) : s[1] * s[2] <= MaxPixels}

Images ==
    UNION {{[rect |-> <<0, 0, s[1], s[2]>>, pix |-> f] :
               f \in [Points(<<0, 0, s[1], s[2]>>) -> Palette]} : s \in Shapes}

\* the variables of the other specifications stay at these values
DiffIdle ==
    /\ img1 = NoImage /\ img2 = NoImage /\ secondUsed = NoImage
    /\ algo = Bilinear /\ monochrome = FALSE
    /\ diff = NoImage /\ mae = NoMae /\ pixelCount = 0
BoundsIdle == srcW = 0 /\ srcH = 0 /\ sizeX = F32Zero /\ sizeY = F32Zero
CropIdle ==
    /\ cropSrc = NoImage /\ cropRatio = 0 /\ croppedImage = NoImage
    /\ cropW = 0 /\ cropH = 0
\* a nil *image.Image; a loaded image is its width, height and picture
Nil == [w |-> 0, h |-> 0, pic |-> "nil"]
NoLoad == [img |-> Nil, err |-> FALSE, conv |-> "none"]
LoadIdle == loadPath = <<>> /\ diskBefore = <<>> /\ loadRes = NoLoad

\* no renderComparison yet
NoRender ==
    [resized |-> FALSE, pixelCount |-> 0, mae |-> "none", objects |-> 0,
     monochrome |-> FALSE]
IdleLoader == [pc |-> "idle", img |-> Nil, signals |-> 0]
IdleDrop == [pc |-> "idle", path |-> <<>>, index |-> 0, img |-> Nil]
AppIdle ==
    /\ mainPc = "idle" /\ useTrash = FALSE /\ trashInstalled = FALSE
    /\ cliPaths = <<<<>>, <<>>>>
    /\ image1 = Nil /\ image2 = Nil /\ image1Path = <<>> /\ image2Path = <<>>
    /\ showMonochrome = FALSE /\ wgCount = 0
    /\ loader = [i \in 1 .. 2 |-> IdleLoader]
    /\ rendered = NoRender /\ ignoredFile = <<>> /\ deleteAttempts = {}
    /\ lastLoadFailed = FALSE /\ drop = IdleDrop

\* slider.Value at construction, in hundredths
SliderStart == 50
\* nothing is shown in the slider tab
NoCrop == [val |-> -1, by |-> 0]
SliderIdle ==
    /\ objects = 0 /\ renderPc = "idle" /\ sliderValue = SliderStart
    /\ reqs = <<>>
    /\ shown = NoCrop /\ rerendered = FALSE /\ renderMae = "none"
    /\ refreshQueue = <<>>
    /\ sliderCrashed = FALSE

Init ==
    /\ pc = "ready"
    /\ CropIdle
    /\ disk = <<>>
    /\ LoadIdle
    /\ AppIdle
    /\ SliderIdle
    /\ img1 \in Images
    /\ img2 \in Images
    /\ secondUsed = NoImage
    /\ algo \in {Bilinear, NearestNeighbor}
    /\ monochrome \in BOOLEAN
    /\ diff = NoImage
    /\ mae = NoMae
    /\ pixelCount = 0
    /\ srcW = 0
    /\ srcH = 0
    /\ sizeX = F32Zero
    /\ sizeY = F32Zero

\* renderComparison's call (main.go:42): the three values returned
CallComputeImageDiffFast ==
    /\ pc = "ready"
    /\ \E res \in {ComputeImageDiffFast(img1, img2, algo, monochrome)} :
           /\ diff' = res.diff
           /\ mae' = res.mae
           /\ pixelCount' = res.pixelCount
    /\ secondUsed' = Reconciled(img1, img2, algo)
    /\ pc' = "done"
    /\ UNCHANGED <<img1, img2, algo, monochrome, boundsVars, cropVars,
                   disk, loadVars, appVars, sliderVars>>

Next == CallComputeImageDiffFast

Spec == Init /\ [][Next]_vars

(***************************************************************************)
(* Properties of ComputeImageDiffFast, checked under Spec.                 *)
(***************************************************************************)
RECURSIVE SumOver(_, _)
\* the sum of f over the finite set S
SumOver(f, S) ==
    IF S = {} THEN 0
    ELSE LET x == CHOOSE x \in S : TRUE IN f[x] + SumOver(f, S \ {x})

Done == pc = "done"

\* the second image as the pixel loop reads it
Second == Reconciled(img1, img2, algo)

\* |a - b| >> 8 of channel k at point p, written out on the two images
DeltaAt(p, k) ==
    LET a == At(img1, p)[k]
        b == At(Second, p)[k]
    IN  (IF a > b THEN a - b ELSE b - a) \div 256

\* the Go comparisons mae == 0 and mae > 0: false of a NaN (den = 0)
MaeIsZero == mae.den # 0 /\ mae.num = 0
MaeIsNaN == mae.den = 0

\* C1 (as claimed): images with the same bounds and the same RGBA value at
\* every pixel give, in non-monochrome mode, a mean absolute error of
\* exactly 0 and a visualization whose every pixel has R = G = B = 0.
C1_IdenticalImagesGiveZero ==
    (Done /\ ~monochrome /\ img1.rect = img2.rect /\ img1.pix = img2.pix)
        => /\ MaeIsZero
           /\ \A p \in DOMAIN diff.pix :
                  diff.pix[p][1] = 0 /\ diff.pix[p][2] = 0 /\ diff.pix[p][3] = 0

\* C1 holds of every identical pair whose bounds are not empty.
C1_HoldsOnNonEmptyBounds ==
    (Done /\ ~monochrome /\ img1.rect = img2.rect /\ img1.pix = img2.pix
          /\ ~RectEmpty(img1.rect))
        => /\ MaeIsZero
           /\ DOMAIN diff.pix = Points(img1.rect)
           /\ \A p \in DOMAIN diff.pix :
                  diff.pix[p][1] = 0 /\ diff.pix[p][2] = 0 /\ diff.pix[p][3] = 0

\* C2: the metric is totalDiff / (3 * pixelCount), totalDiff being the sum
\* over every pixel of the first image's bounds of the three truncated
\* deltas |a - b| >> 8; the display mode does not change it.
C2_MetricIsTruncatedMean ==
    Done =>
        /\ mae.num = SumOver([p \in Points(img1.rect) |->
                                  DeltaAt(p, 1) + DeltaAt(p, 2) + DeltaAt(p, 3)],
                             Points(img1.rect))
        /\ mae.den = 3 * Cardinality(Points(img1.rect))
        /\ mae = ComputeImageDiffFast(img1, img2, algo, ~monochrome).mae

\* C2's case: a 1 x 1 Tint against Black in monochrome mode; the deltas
\* 16 + 255 + 0 are summed, not the displayed 240 nor the amplified values.
C2_Witness ==
    /\ Done /\ monochrome
    /\ img1.pix = (<<0, 0>> :> Tint) /\ img2.pix = (<<0, 0>> :> Black)
    /\ mae = [num |-> 271, den |-> 3]

\* C3: over non-empty bounds the mean absolute error lies in [0, 255].
C3_MetricInRange ==
    (Done /\ ~RectEmpty(img1.rect))
        => mae.den > 0 /\ 0 <= mae.num /\ mae.num <= 255 * mae.den

\* C3's case: a resampled second image and a channel that differs by 255.
C3_Witness ==
    /\ Done /\ ~RectEmpty(img1.rect) /\ ~RectEq(img1.rect, img2.rect)
    /\ \E p \in Points(img1.rect) : DeltaAt(p, 2) = 255

\* C4 (as claimed): a mean absolute error of exactly 0 means that every
\* pixel has the same R, G, B and A in both images (the second one after
\* the bounds-matching resize).
C4_ZeroMeansIdentical ==
    (Done /\ MaeIsZero) => \A p \in Points(img1.rect) : At(img1, p) = At(Second, p)

\* C5 (as claimed): the metric is never computed with a pixel count of zero.
C5_NeverDividesByZero == Done => (pixelCount # 0 /\ mae.den # 0)

\* C6: the pixel count returned is width x height of the first image's
\* bounds, whatever the second image's size and the display mode.
C6_PixelCountIsArea == Done => pixelCount = Dx(img1.rect) * Dy(img1.rect)

\* C6's case: a 2 x 1 first image, a 1 x 1 second one, monochrome mode.
C6_Witness ==
    /\ Done /\ monochrome /\ pixelCount = 2
    /\ img1.rect = <<0, 0, 2, 1>> /\ img2.rect = <<0, 0, 1, 1>>

\* C7: every pixel of the bounds is written with alpha 255; in normal mode
\* each channel is min(5 * delta, 255); in monochrome mode the pixel is
\* (0,0,0) when the three deltas are zero and (240,0,0) otherwise; a pixel
\* with all deltas zero is black in both modes.
C7_DisplayValues ==
    Done =>
        /\ diff.rect = img1.rect
        /\ DOMAIN diff.pix = Points(img1.rect)
        /\ \A p \in Points(img1.rect) :
              LET same == DeltaAt(p, 1) = 0 /\ DeltaAt(p, 2) = 0 /\ DeltaAt(p, 3) = 0
                  c    == diff.pix[p]
              IN  /\ c[4] = 255
                  /\ ~monochrome =>
                        \A k \in 1 .. 3 :
                            c[k] = (IF 5 * DeltaAt(p, k) < 255
                                    THEN 5 * DeltaAt(p, k) ELSE 255)
                  /\ monochrome =>
                        c = (IF same THEN <<0, 0, 0, 255>> ELSE <<240, 0, 0, 255>>)
                  /\ same => c = <<0, 0, 0, 255>>

\* C7's case: normal mode, one pixel amplified below the clamp (16 -> 80),
\* clamped (255 -> 255) and untouched (0), beside a pixel without difference.
C7_Witness ==
    /\ Done /\ ~monochrome
    /\ \E p, q \in Points(img1.rect) :
           /\ diff.pix[p] = <<80, 255, 0, 255>>
           /\ diff.pix[q] = <<0, 0, 0, 255>>

\* C8: with equal bounds, ComputeImageDiffFast(A, B) and
\* ComputeImageDiffFast(B, A) return the same metric and visualization.
C8_SymmetricOnEqualBounds ==
    (Done /\ RectEq(img1.rect, img2.rect)) =>
        LET r == ComputeImageDiffFast(img2, img1, algo, monochrome)
        IN  /\ r.mae = mae
            /\ r.pixelCount = pixelCount
            /\ RectEq(r.diff.rect, diff.rect)
            /\ r.diff.pix = diff.pix

\* C8's case: two different 2 x 1 images, each the larger one somewhere.
C8_Witness ==
    /\ Done /\ img1.rect = <<0, 0, 2, 1>> /\ img2.rect = <<0, 0, 2, 1>>
    /\ img1.pix[<<0, 0>>] = Tint /\ img2.pix[<<0, 0>>] = Black
    /\ img1.pix[<<1, 0>>] = Black /\ img2.pix[<<1, 0>>] = Tint
    /\ mae.num = 542

\* the filter handed to imaging.Resize for the selected algorithm
FilterOf(alg) == IF alg = 1 THEN "nearest" ELSE "linear"

\* C20 (as claimed): the second image is resampled exactly when its bounds
\* rectangle differs from the first image's, and then to exactly the first
\* image's width and height with the filter of the selected algorithm; with
\* equal bounds it is compared as it is; the visualization has the first
\* image's bounds.
C20_ResampledToFirstImageSize ==
    Done =>
        /\ IF img2.rect # img1.rect
           THEN /\ Dx(secondUsed.rect) = Dx(img1.rect)
                /\ Dy(secondUsed.rect) = Dy(img1.rect)
                /\ secondUsed = Resize(img2, Dx(img1.rect), Dy(img1.rect),
                                  IF FilterOf(algo) = "nearest"
                                  THEN NearestNeighbor ELSE Bilinear)
           ELSE secondUsed = img2
        /\ diff.rect = img1.rect

\* C20 holds whenever neither image has empty bounds
C20_HoldsOnNonEmptyBounds ==
    (Done /\ ~RectEmpty(img1.rect) /\ ~RectEmpty(img2.rect)) =>
        /\ IF img2.rect # img1.rect
           THEN /\ Dx(secondUsed.rect) = Dx(img1.rect)
                /\ Dy(secondUsed.rect) = Dy(img1.rect)
                /\ secondUsed = Resize(img2, Dx(img1.rect), Dy(img1.rect),
                                  IF FilterOf(algo) = "nearest"
                                  THEN NearestNeighbor ELSE Bilinear)
           ELSE secondUsed = img2
        /\ diff.rect = img1.rect

(***************************************************************************)
(* SpecBounds: GetScaledBounds on every width and height of Sides.         *)
(***************************************************************************)
\* widths and heights: the smallest ones, those around the box bound, and
\* the sides of the 800 x 600 and 400 x 300 images
SmallSide == 3
NearLo == 390
MaxSide == 450
Sides == (0 .. SmallSide) \cup (NearLo .. MaxSide) \cup {300, 600, 800}


InitBounds ==
    /\ pc = "ready"
    /\ CropIdle
    /\ disk = <<>>
    /\ LoadIdle
    /\ AppIdle
    /\ SliderIdle
    /\ srcW \in Sides
    /\ srcH \in Sides
    /\ sizeX = F32Zero
    /\ sizeY = F32Zero
    /\ img1 = NoImage
    /\ img2 = NoImage
    /\ secondUsed = NoImage
    /\ algo = Bilinear
    /\ monochrome = FALSE
    /\ diff = NoImage
    /\ mae = NoMae
    /\ pixelCount = 0

CallGetScaledBounds ==
    /\ pc = "ready"
    /\ \E size \in {GetScaledBounds(srcW, srcH)} :
           /\ sizeX' = size[1]
           /\ sizeY' = size[2]
    /\ pc' = "done"
    /\ UNCHANGED <<diffVars, srcW, srcH, cropVars, disk, loadVars, appVars, sliderVars>>

NextBounds == CallGetScaledBounds

SpecBounds == InitBounds /\ [][NextBounds]_vars

(***************************************************************************)
(* Properties of GetScaledBounds, checked under SpecBounds.                *)
(***************************************************************************)
F32MaxWidth == F32FromInt(ImageMaxWidth)
F32MaxHeight == F32FromInt(ImageMaxHeight)

Fits == srcW <= ImageMaxWidth /\ srcH <= ImageMaxHeight

\* C9 (as claimed): the width returned is never above ImageMaxWidth nor the
\* height above ImageMaxHeight, and a source that fits is returned unchanged.
C9_WithinBoxNoUpscale ==
    Done =>
        /\ F32Le(sizeX, F32MaxWidth)
        /\ F32Le(sizeY, F32MaxHeight)
        /\ Fits => (sizeX = F32FromInt(srcW) /\ sizeY = F32FromInt(srcH))

\* C10 (as claimed): when the source does not fit, exactly one of the two
\* dimensions returned equals its box bound and the other is strictly smaller.
C10_ExactlyOneAtBound ==
    (Done /\ ~Fits) =>
        \/ (sizeX = F32MaxWidth /\ F32Lt(sizeY, F32MaxHeight))
        \/ (sizeY = F32MaxHeight /\ F32Lt(sizeX, F32MaxWidth))

\* C10 (amended): when the source does not fit, at least one of the two
\* dimensions returned equals its box bound: the width when scaleX > scaleY,
\* the height otherwise; when the two scale factors differ the other
\* dimension is strictly smaller than its bound.
C10_AtLeastOneAtBound ==
    (Done /\ ~Fits) =>
        /\ F32Lt(ScaleY(srcH), ScaleX(srcW)) => sizeX = F32MaxWidth
        /\ ~F32Lt(ScaleY(srcH), ScaleX(srcW)) => sizeY = F32MaxHeight
        /\ ScaleX(srcW) # ScaleY(srcH) =>
              \/ (sizeX = F32MaxWidth /\ F32Lt(sizeY, F32MaxHeight))
              \/ (sizeY = F32MaxHeight /\ F32Lt(sizeX, F32MaxWidth))

\* C10's case: 800 x 600 is scaled to 400 x 300.
C10_Witness ==
    /\ Done /\ srcW = 800 /\ srcH = 600
    /\ sizeX = F32MaxWidth /\ sizeY = F32FromInt(300)

(***************************************************************************)
(* CropImageFast and RescaleImageFast (util/utils.go).                     *)
(***************************************************************************)
\* the slider's step is 0.01: a ratio is a number of hundredths k, and the
\* float64 handed to CropImageFast is the one nearest to k / 100
RatioDen == 100

\* ratio = max(0, ratio); if ratio > 1 { ratio = 1 }
ClampRatio(r) ==
    LET r0 == Max2(0, r) IN IF r0 > RatioDen THEN RatioDen ELSE r0

\* the bits of a float64's significand
F64Bits == 53

\* A number below 1 is held as the 8 base-256 digits of its binary fraction
\* (64 bits), most significant first.

\* the number of zero bits between the binary point and the first one bit
\* of k / 100, for 0 < k < 100
RECURSIVE LeadingZeros(_)
LeadingZeros(k) == IF 2 * k >= RatioDen THEN 0 ELSE 1 + LeadingZeros(2 * k)

\* n more base-256 digits of the fraction rem / 100, by long division, with
\* the remainder left
RECURSIVE LongDiv(_, _, _)
LongDiv(rem, n, acc) ==
    IF n = 0 THEN [digits |-> acc, rem |-> rem]
    ELSE CHOOSE q \in {LongDiv(d % RatioDen, n - 1, Append(acc, d \div RatioDen)) :
                          d \in {256 * rem}} : TRUE

\* the digits with c added at digit i, the carry going up
RECURSIVE AddAt(_, _, _)
AddAt(digits, i, c) ==
    IF c = 0 \/ i = 0 THEN digits
    ELSE CHOOSE q \in {AddAt([digits EXCEPT ![i] = t % 256], i - 1, t \div 256) :
                          t \in {digits[i] + c}} : TRUE

\* the number of bits of n
RECURSIVE BitLen(_)
BitLen(n) == IF n = 0 THEN 0 ELSE 1 + BitLen(n \div 2)

\* the number of zero bits at the head of a fraction
RECURSIVE ZeroBits(_)
ZeroBits(digits) ==
    IF digits = <<>> THEN 0
    ELSE IF Head(digits) = 0 THEN 8 + ZeroBits(Tail(digits))
    ELSE 8 - BitLen(Head(digits))

\* rounding to nearest, ties to even: the bits dropped are above the half
\* of unit (2 ^ n), or are the half with sticky bits below them or an odd
\* last bit kept
RoundsUp(dropped, n, sticky, lastKept) ==
    /\ n > 0
    /\ \/ 2 * dropped > 2 ^ n
       \/ 2 * dropped = 2 ^ n /\ (sticky \/ lastKept % 2 = 1)

\* the float64 nearest to k / 100 for 0 < k < 100: the leading zeros and the
\* 53 bits of the significand; the bits below them (11 less the leading
\* zeros, all within the last two digits) are rounded away
F64Ratio(k) ==
    LET q == LongDiv(k, 8, <<>>)
        n == 11 - LeadingZeros(k)
        low == q.digits[7] * 256 + q.digits[8]
        dropped == low % (2 ^ n)
        up == RoundsUp(dropped, n, q.rem > 0, low \div (2 ^ n))
    IN  AddAt([q.digits EXCEPT ![7] = 0, ![8] = 0], 8,
              low - dropped + (IF up THEN 2 ^ n ELSE 0))

\* the exact product of the integer w and a fraction: its integer part and
\* the digits of its fraction
RECURSIVE MulFrac(_, _, _, _, _)
MulFrac(digits, i, w, carry, acc) ==
    IF i = 0 THEN [int |-> carry, frac |-> acc]
    ELSE CHOOSE p \in {MulFrac(digits, i - 1, w, t \div 256, <<t % 256>> \o acc) :
                          t \in {w * digits[i] + carry}} : TRUE

\* int(x) of the float64 x nearest to the exact product p (below 2 ^ 12):
\* p is rounded to 53 significant bits, which drops n bits of the last three
\* digits, and only a rounding that carries through every fraction bit kept
\* reaches the next integer
F64ProductToInt(p) ==
    LET len == IF p.int > 0 THEN BitLen(p.int) + 64 ELSE 64 - ZeroBits(p.frac)
        n == Max2(0, len - F64Bits)
        low == p.frac[6] * 65536 + p.frac[7] * 256 + p.frac[8]
        dropped == low % (2 ^ n)
        kept == low \div (2 ^ n)
    IN  IF /\ RoundsUp(dropped, n, FALSE, kept)
           /\ kept = 2 ^ (24 - n) - 1
           /\ \A j \in 1 .. 5 : p.frac[j] = 255
        THEN p.int + 1
        ELSE p.int

\* endX := int(float64(w) * ratio), on the clamped ratio: the float64
\* product of w and the float64 of r hundredths, truncated
EndX(w, r) ==
    IF r = 0 \/ w = 0 THEN 0
    ELSE IF r = RatioDen THEN w
    ELSE CHOOSE endX \in {F64ProductToInt(p) :
                             p \in {MulFrac(digits, 8, w, 0, <<>>) :
                                        digits \in {F64Ratio(r)}}} : TRUE

\* draw.Draw with draw.Src into an *image.RGBA: each channel of the source's
\* RGBA() value is stored as its high byte, which RGBA() reads back as
\* byte * 0x101
DrawSrcPixel(c) == [k \in 1 .. 4 |-> (c[k] \div 256) * 257]

\* CropImageFast up to its call of RescaleImageFast: croppedImage
CropImageFast(src, r) ==
    LET w == Dx(src.rect)
        h == Dy(src.rect)
        endX == EndX(w, ClampRatio(r))
        destRect == <<0, 0, endX, h>>
        canvas == <<0, 0, w, h>>
    IN  [rect |-> canvas,
         pix |-> [p \in Points(canvas) |->
                    IF p \in Points(destRect) /\ p \in Points(src.rect)
                    THEN DrawSrcPixel(At(src, p))
                    ELSE Transparent]]

\* uint(f) of a float32 that is not negative: truncation
F32ToUint(x) ==
    IF x[1] = 0 THEN 0
    ELSE IF x[2] >= 0 THEN x[1] * 2^(x[2]) ELSE x[1] \div 2^(-x[2])

\* RescaleImageFast: the width and height handed to resize.Resize
RescaleTarget(w, h) ==
    LET size == GetScaledBounds(w, h)
    IN  <<F32ToUint(size[1]), F32ToUint(size[2])>>

\* the source of SpecBounds has a positive width and height
PositiveSource == Done /\ srcW > 0 /\ srcH > 0

\* C23 (as claimed): for an image of positive width and height the width and
\* height that RescaleImageFast hands to the resizer, uint(sizeX) and
\* uint(sizeY), are both at least 1 and at most 400
C23_TargetsFromOneToMax ==
    PositiveSource =>
        /\ 1 <= F32ToUint(sizeX) /\ F32ToUint(sizeX) <= ImageMaxWidth
        /\ 1 <= F32ToUint(sizeY) /\ F32ToUint(sizeY) <= ImageMaxHeight

\* the upper half of C23: neither target is above 400
C23_TargetsAtMostMax ==
    PositiveSource =>
        /\ F32ToUint(sizeX) <= ImageMaxWidth
        /\ F32ToUint(sizeY) <= ImageMaxHeight

(***************************************************************************)
(* SpecCrop: CropImageFast on every image of at most MaxCropPixels pixels  *)
(* over CropPalette and on the wide one-colour images, with every ratio of *)
(* Ratios.                                                                 *)
(***************************************************************************)
MaxCropPixels == 4

\* the pixel NRGBA{100, 0, 0, 100} of a decoded PNG, as RGBA() returns it
Veil == <<10078, 0, 0, 25700>>
CropPalette == {Black, Transparent, Veil}

CropShapes ==
    {s \in (0 .. MaxCropPixels) \X (0 .. MaxCropPixels) : s[1] * s[2] <= MaxCropPixels}

\* one row of one colour, of a width on which the float64 product is just
\* below an integer for some ratio of the slider
WideWidths == {50, 100}
WideImages ==
    {[rect |-> <<0, 0, w, 1>>, pix |-> [p \in Points(<<0, 0, w, 1>>) |-> c]] :
        w \in WideWidths, c \in CropPalette}

CropImages ==
    WideImages \cup
    UNION {{[rect |-> <<0, 0, s[1], s[2]>>, pix |-> f] :
               f \in [Points(<<0, 0, s[1], s[2]>>) -> CropPalette]} : s \in CropShapes}

\* below 0, the slider's range and above 1
Ratios == {-50, 0, 1, 25, 29, 33, 50, 58, 60, 75, 99, 100, 150}

InitCrop ==
    /\ pc = "ready"
    /\ DiffIdle
    /\ BoundsIdle
    /\ cropSrc \in CropImages
    /\ cropRatio \in Ratios
    /\ croppedImage = NoImage
    /\ cropW = 0
    /\ cropH = 0
    /\ disk = <<>>
    /\ LoadIdle
    /\ AppIdle
    /\ SliderIdle

CallCropImageFast ==
    /\ pc = "ready"
    /\ croppedImage' = CropImageFast(cropSrc, cropRatio)
    /\ \E size \in {RescaleTarget(Dx(cropSrc.rect), Dy(cropSrc.rect))} :
           /\ cropW' = size[1]
           /\ cropH' = size[2]
    /\ pc' = "done"
    /\ UNCHANGED <<diffVars, boundsVars, cropSrc, cropRatio, disk, loadVars,
                   appVars, sliderVars>>

NextCrop == CallCropImageFast

SpecCrop == InitCrop /\ [][NextCrop]_vars

(***************************************************************************)
(* Properties of CropImageFast, checked under SpecCrop.                    *)
(***************************************************************************)
\* the ratio clamped to [0, 1] and the cut column floor(width * ratio)
CutX ==
    LET r == IF cropRatio < 0 THEN 0 ELSE IF cropRatio > 100 THEN 100 ELSE cropRatio
    IN  (Dx(cropSrc.rect) * r) \div 100

\* C11 (as claimed): the canvas handed to the rescaling has the source's
\* width and height, its columns [0, cutX) equal the source's columns and
\* its columns [cutX, width) are fully transparent; so a ratio <= 0 gives a
\* blank canvas and a ratio >= 1 an exact copy of the source.
C11_ColumnsCopiedRestTransparent ==
    Done =>
        /\ croppedImage.rect = cropSrc.rect
        /\ \A p \in Points(cropSrc.rect) :
              IF p[1] < CutX
              THEN croppedImage.pix[p] = cropSrc.pix[p]
              ELSE croppedImage.pix[p] = <<0, 0, 0, 0>>
        /\ cropRatio <= 0 =>
              \A p \in Points(cropSrc.rect) : croppedImage.pix[p] = <<0, 0, 0, 0>>
        /\ cropRatio >= 100 => croppedImage = cropSrc

\* what holds of the canvas: it has the source's width and height; the
\* columns left of cutX - 1 hold the source's pixels converted to 8-bit
\* premultiplied RGBA (each channel is the high byte of the source's 16-bit
\* value), the columns from cutX on are fully transparent, and the column
\* cutX - 1 is one or the other; a ratio <= 0 gives a blank canvas and a
\* ratio >= 1 a copy of the source at that precision.
C11_WithinOneColumnAtEightBits ==
    Done =>
        /\ croppedImage.rect = cropSrc.rect
        /\ \A p \in Points(cropSrc.rect) :
              LET copied == \A k \in 1 .. 4 :
                      croppedImage.pix[p][k] = (cropSrc.pix[p][k] \div 256) * 257
                  blank == croppedImage.pix[p] = <<0, 0, 0, 0>>
              IN  IF p[1] < CutX - 1 THEN copied
                  ELSE IF p[1] >= CutX THEN blank
                  ELSE copied \/ blank
        /\ cropRatio <= 0 =>
              \A p \in Points(cropSrc.rect) : croppedImage.pix[p] = <<0, 0, 0, 0>>
        /\ cropRatio >= 100 =>
              \A p \in Points(cropSrc.rect) : \A k \in 1 .. 4 :
                  croppedImage.pix[p][k] \div 256 = cropSrc.pix[p][k] \div 256

\* the column cutX - 1 of an opaque source is cut although it is left of
\* cutX: 50 columns at 0.58, where cutX = 29
C11_ColumnShort ==
    /\ Done /\ cropRatio = 58 /\ Dx(cropSrc.rect) = 50
    /\ cropSrc.pix[<<28, 0>>] = Black
    /\ croppedImage.pix[<<28, 0>>] = <<0, 0, 0, 0>>

\* C11's case: half of a 2 x 1 source is kept; the partly transparent pixel
\* kept is stored as (39, 0, 0, 100), the opaque pixel cut is transparent.
C11_Witness ==
    /\ Done /\ cropRatio = 50
    /\ cropSrc.rect = <<0, 0, 2, 1>>
    /\ cropSrc.pix[<<0, 0>>] = Veil /\ cropSrc.pix[<<1, 0>>] = Black
    /\ croppedImage.pix[<<0, 0>>] = <<10023, 0, 0, 25700>>
    /\ croppedImage.pix[<<1, 0>>] = <<0, 0, 0, 0>>

(***************************************************************************)
(* LoadImage (util/utils.go).  A path is the sequence of its characters, a *)
(* file's content is what a decoder finds in it.                           *)
(***************************************************************************)
ExtJxl == <<".", "j", "x", "l">>
ConvertedSuffix ==
    <<".", "c", "o", "n", "v", "e", "r", "t", "e", "d", ".", "p", "n", "g">>

RECURSIVE ExtStart(_, _)
\* filepath.Ext's scan from the end of the path: the index of the last dot
\* of the last path element, 0 when there is none
ExtStart(path, i) ==
    IF i = 0 THEN 0
    ELSE IF path[i] = "/" THEN 0
    ELSE IF path[i] = "." THEN i
    ELSE ExtStart(path, i - 1)

\* filepath.Ext(path)
Ext(path) ==
    LET i == ExtStart(path, Len(path))
    IN  IF i = 0 THEN <<>> ELSE SubSeq(path, i, Len(path))

\* tmpFile := path + ".converted.png"
TmpFile(path) == path \o ConvertedSuffix

\* contents: a PNG of a picture, a JPEG XL of a picture, bytes no decoder
\* accepts (a truncated file, say)
Png(picture) == [kind |-> "png", picture |-> picture]
Jxl(picture) == [kind |-> "jxl", picture |-> picture]
Junk == [kind |-> "junk", picture |-> Nil]

WriteFile(d, path, content) == (path :> content) @@ d
\* os.Remove(path)
RemoveFile(d, path) == [q \in (DOMAIN d) \ {path} |-> d[q]]

\* imaging.Open(path): the decoded image, or an error
Open(d, path) ==
    IF path \in DOMAIN d /\ d[path].kind = "png"
    THEN [img |-> d[path].picture, err |-> FALSE]
    ELSE [img |-> Nil, err |-> TRUE]

\* exec.Command("djxl", path, tmpFile).Run(): what the converter can do.
\* It can always fail, leaving the disk as it was or a partly written
\* tmpFile; on a JPEG XL input it can succeed, and tmpFile is then a PNG of
\* the picture, or a file that imaging.Open does not decode.
Djxl(d, path, tmpFile) ==
    {[ok |-> FALSE, disk |-> d], [ok |-> FALSE, disk |-> WriteFile(d, tmpFile, Junk)]}
    \cup
    (IF path \in DOMAIN d /\ d[path].kind = "jxl"
     THEN {[ok |-> TRUE, disk |-> WriteFile(d, tmpFile, Png(d[path].picture))],
           [ok |-> TRUE, disk |-> WriteFile(d, tmpFile, Junk)]}
     ELSE {})

\* LoadImage without its deferred os.Remove
LoadImage_KeepTemp(path, d) ==
    IF Ext(path) = ExtJxl
    THEN LET tmpFile == TmpFile(path)
             runs == Djxl(d, path, tmpFile)
         IN  {[img |-> Nil, err |-> TRUE, conv |-> "failed", disk |-> c.disk] :
                  c \in {c \in runs : ~c.ok}}
             \cup
             {[img |-> Open(c.disk, tmpFile).img, err |-> Open(c.disk, tmpFile).err,
               conv |-> "ok", disk |-> c.disk] :
                  c \in {c \in runs : c.ok}}
    ELSE {[img |-> Open(d, path).img, err |-> Open(d, path).err,
           conv |-> "none", disk |-> d]}

\* LoadImage(path) on the disk d: every (image, error) it can return, with
\* the disk it leaves.  conv tells what became of the conversion.
LoadImage(path, d) ==
    IF Ext(path) = ExtJxl
    THEN LET tmpFile == TmpFile(path)
             runs == Djxl(d, path, tmpFile)
         IN  \* if err != nil { return nil, err }
             {[img |-> Nil, err |-> TRUE, conv |-> "failed", disk |-> c.disk] :
                  c \in {c \in runs : ~c.ok}}
             \cup
             \* defer os.Remove(tmpFile); return imaging.Open(tmpFile)
             {[img |-> Open(c.disk, tmpFile).img, err |-> Open(c.disk, tmpFile).err,
               conv |-> "ok", disk |-> RemoveFile(c.disk, tmpFile)] :
                  c \in {c \in runs : c.ok}}
    ELSE {[img |-> Open(d, path).img, err |-> Open(d, path).err,
           conv |-> "none", disk |-> d]}

(***************************************************************************)
(* SpecLoad: LoadImage on every path of LoadPaths, with the file and its   *)
(* temporary file absent or present with each content.                     *)
(***************************************************************************)
PicA == [w |-> 800, h |-> 600, pic |-> "A"]
PicB == [w |-> 400, h |-> 300, pic |-> "B"]

\* a.jxl, b.png, c.JXL, d.jxl/e (a file without extension in a directory
\* named d.jxl) and a.jxl.converted.png
LoadPaths ==
    {<<"a", ".", "j", "x", "l">>,
     <<"b", ".", "p", "n", "g">>,
     <<"c", ".", "J", "X", "L">>,
     <<"d", ".", "j", "x", "l", "/", "e">>,
     TmpFile(<<"a", ".", "j", "x", "l">>)}

Absent == [kind |-> "absent", picture |-> Nil]
Contents == {Absent, Png(PicA), Png(PicB), Jxl(PicA), Junk}

\* the disk holding path with content c and its temporary file with t
DiskOf(path, c, t) ==
    LET d1 == IF c = Absent THEN <<>> ELSE WriteFile(<<>>, path, c)
    IN  IF t = Absent THEN d1 ELSE WriteFile(d1, TmpFile(path), t)

InitLoad ==
    /\ pc = "ready"
    /\ DiffIdle
    /\ BoundsIdle
    /\ CropIdle
    /\ loadPath \in LoadPaths
    /\ \E c \in Contents, t \in Contents : disk = DiskOf(loadPath, c, t)
    /\ diskBefore = <<>>
    /\ loadRes = NoLoad
    /\ AppIdle
    /\ SliderIdle

CallLoadImage ==
    /\ pc = "ready"
    /\ \E o \in LoadImage(loadPath, disk) :
           /\ loadRes' = [img |-> o.img, err |-> o.err, conv |-> o.conv]
           /\ disk' = o.disk
    /\ diskBefore' = disk
    /\ pc' = "done"
    /\ UNCHANGED <<diffVars, boundsVars, cropVars, loadPath, appVars, sliderVars>>

NextLoad == CallLoadImage

SpecLoad == InitLoad /\ [][NextLoad]_vars

(***************************************************************************)
(* Properties of LoadImage, checked under SpecLoad.                        *)
(***************************************************************************)
IsJxlPath == Ext(loadPath) = <<".", "j", "x", "l">>
TmpPath == loadPath \o ConvertedSuffix

\* C13 (as claimed): when LoadImage on a .jxl path returns because the
\* conversion failed, the file <path>.converted.png is not left on disk,
\* also when the converter had written a part of it.
C13_NoTempAfterFailedConversion ==
    (Done /\ IsJxlPath /\ loadRes.conv = "failed" /\ TmpPath \notin DOMAIN diskBefore)
        => TmpPath \notin DOMAIN disk

\* C14: LoadImage on a .jxl path whose conversion succeeded leaves no file
\* <path>.converted.png, whether the decoding of it succeeded or failed; on
\* a path of any other extension it leaves the disk exactly as it was.
C14_TempRemovedAfterConversion ==
    Done =>
        /\ (IsJxlPath /\ loadRes.conv = "ok") => TmpPath \notin DOMAIN disk
        /\ ~IsJxlPath => (disk = diskBefore /\ loadRes.conv = "none")

\* C14's case: the conversion of a.jxl succeeded over an older temporary
\* file, the decoding failed, and the temporary file is gone.
C14_Witness ==
    /\ Done /\ IsJxlPath
    /\ TmpPath \in DOMAIN diskBefore
    /\ loadRes.conv = "ok" /\ loadRes.err
    /\ TmpPath \notin DOMAIN disk
    /\ loadPath \in DOMAIN disk

(***************************************************************************)
(* The application (main.go): main, the two loading goroutines of the      *)
(* command-line start, and the handlers of the window.  An image is its    *)
(* width, height and picture; two images show the same pixels exactly when *)
(* they are the same picture at the same size.                             *)
(***************************************************************************)
\* resize.Resize(width, height, img, interp): the width and height of the
\* image returned for a source of oldW x oldH.  A zero dimension is derived
\* from the other one, uint(0.7 + old / scale); a source without pixels and
\* a target equal to the source's size return the source.
ResizeSize(width, height, oldW, oldH) ==
    IF oldW <= 0 \/ oldH <= 0 THEN <<oldW, oldH>>
    ELSE <<IF width # 0 THEN width
           ELSE IF height = 0 THEN oldW
           ELSE (7 * oldH + 10 * oldW * height) \div (10 * oldH),
           IF height # 0 THEN height
           ELSE IF width = 0 THEN oldH
           ELSE (7 * oldW + 10 * oldH * width) \div (10 * oldW)>>

\* RescaleImageFast(img, algo) on an image that is not nil
RescaleImageFast(img) ==
    LET target == RescaleTarget(img.w, img.h)
        size == ResizeSize(target[1], target[2], img.w, img.h)
    IN  [w |-> size[1], h |-> size[2], pic |-> img.pic]

\* renderComparison's call of ComputeImageDiffFast on image1 and image2 as
\* they are, and what it displays: whether the second image was resampled
\* (its bounds differ from the first's), the pixel count (the area of the
\* first image), the sign of mae (NaN for no pixel, zero for the same
\* pixels) and the number of objects of the slider tab's container
RenderComparison(i1, i2, mono) ==
    LET resized == ~(<<i2.w, i2.h>> = <<i1.w, i1.h>>
                     \/ ((i1.w = 0 \/ i1.h = 0) /\ (i2.w = 0 \/ i2.h = 0)))
        count == i1.w * i1.h
        sign == IF count = 0 THEN "NaN"
                ELSE IF i1 = i2 THEN "zero" ELSE "positive"
    IN  [resized |-> resized, pixelCount |-> count, mae |-> sign,
         objects |-> IF sign = "positive" THEN 2 ELSE 0,
         monochrome |-> mono]

\* the files of SpecApp: a.png (800 x 600), b.png (400 x 300, another
\* picture), x.png (not an image), j.jxl (the picture of b.png) and m.png,
\* which does not exist
PathA == <<"a", ".", "p", "n", "g">>
PathB == <<"b", ".", "p", "n", "g">>
PathX == <<"x", ".", "p", "n", "g">>
PathJ == <<"j", ".", "j", "x", "l">>
PathM == <<"m", ".", "p", "n", "g">>
AppPaths == {PathA, PathB, PathX, PathJ, PathM}
AppDisk ==
    (PathA :> Png(PicA)) @@ (PathB :> Png(PicB)) @@ (PathX :> Junk)
        @@ (PathJ :> Jxl(PicB))

\* rescaledImg := util.RescaleImageFast(img, scalingAlgo), for each picture
\* a file of the disk can hold
Pictures == {PicA, PicB}
Preview == [img \in Pictures |-> RescaleImageFast(img)]

\* a line that an earlier run appended to ignored_images.txt
EarlierLine == <<"p", ":", "q", "\n">>

\* a failed write is modelled while ignored_images.txt stays within this
\* number of characters
MaxIgnoredLen == 12

\* fmt.Sprintf("%s:%s\n", image1Path, image2Path)
IgnoreLine(p1, p2) == p1 \o <<":">> \o p2 \o <<"\n">>

\* the flags -image1 and -image2: none, one alone, the two PNG files, a
\* file that is not an image, a JPEG XL file, a file that does not exist
CliPaths ==
    {<<<<>>, <<>>>>, <<PathA, <<>>>>, <<PathA, PathB>>, <<PathX, PathB>>,
     <<PathJ, PathA>>, <<PathA, PathM>>}

InitApp ==
    /\ pc = "ready"
    /\ DiffIdle
    /\ BoundsIdle
    /\ CropIdle
    /\ LoadIdle
    /\ SliderIdle
    /\ disk = AppDisk
    /\ mainPc = "start"
    /\ useTrash \in BOOLEAN
    /\ trashInstalled \in BOOLEAN
    /\ cliPaths \in CliPaths
    /\ image1 = Nil
    /\ image2 = Nil
    /\ image1Path = <<>>
    /\ image2Path = <<>>
    /\ showMonochrome = FALSE
    /\ wgCount = 0
    /\ loader = [i \in 1 .. 2 |-> IdleLoader]
    /\ rendered = NoRender
    /\ ignoredFile \in {<<>>, EarlierLine}
    /\ deleteAttempts = {}
    /\ lastLoadFailed = FALSE
    /\ drop = IdleDrop

\* main without the exec.LookPath("trash") check
Main_NoTrashCheck ==
    /\ mainPc = "start"
    /\ IF cliPaths[1] # <<>> /\ cliPaths[2] # <<>>
       THEN IF cliPaths[1] \notin DOMAIN disk \/ cliPaths[2] \notin DOMAIN disk
            THEN mainPc' = "exited" /\ UNCHANGED <<wgCount, loader>>
            ELSE /\ wgCount' = 2
                 /\ loader' = [i \in 1 .. 2 |-> [IdleLoader EXCEPT !.pc = "load"]]
                 /\ mainPc' = "wait"
       ELSE mainPc' = "running" /\ UNCHANGED <<wgCount, loader>>
    /\ UNCHANGED <<pc, diffVars, boundsVars, cropVars, disk, loadVars, sliderVars, useTrash,
                   trashInstalled, cliPaths, image1, image2, image1Path,
                   image2Path, showMonochrome, rendered, ignoredFile,
                   deleteAttempts, lastLoadFailed, drop>>

\* main up to loadingWaitGroup.Wait() or mainWindow.ShowAndRun(): the check
\* for the trash tool, the window, the two os.Stat checks of the
\* command-line paths and the start of the two goroutines
Main ==
    /\ mainPc = "start"
    /\ IF useTrash /\ ~trashInstalled
       THEN mainPc' = "exited" /\ UNCHANGED <<wgCount, loader>>
       ELSE IF cliPaths[1] # <<>> /\ cliPaths[2] # <<>>
       THEN IF cliPaths[1] \notin DOMAIN disk \/ cliPaths[2] \notin DOMAIN disk
            THEN mainPc' = "exited" /\ UNCHANGED <<wgCount, loader>>
            ELSE /\ wgCount' = 2
                 /\ loader' = [i \in 1 .. 2 |-> [IdleLoader EXCEPT !.pc = "load"]]
                 /\ mainPc' = "wait"
       ELSE mainPc' = "running" /\ UNCHANGED <<wgCount, loader>>
    /\ UNCHANGED <<pc, diffVars, boundsVars, cropVars, disk, loadVars, sliderVars, useTrash,
                   trashInstalled, cliPaths, image1, image2, image1Path,
                   image2Path, showMonochrome, rendered, ignoredFile,
                   deleteAttempts, lastLoadFailed, drop>>

\* the variables a loading goroutine never writes
LoaderFrame ==
    UNCHANGED <<pc, diffVars, boundsVars, cropVars, loadVars, sliderVars, mainPc, useTrash,
                trashInstalled, cliPaths, showMonochrome, rendered,
                ignoredFile, deleteAttempts, drop>>

\* loadingWaitGroup.Done() and the return of goroutine i
LoaderDone(i) ==
    /\ wgCount' = wgCount - 1
    /\ loader' = [loader EXCEPT ![i].pc = "done",
                                ![i].signals = loader[i].signals + 1]

\* an error return of goroutine i: Done() and dialog.ShowError
LoaderError(i) ==
    /\ LoaderDone(i)
    /\ lastLoadFailed' = TRUE

\* goroutine i, LoadImage on a .jxl path: the run of djxl
LoaderConvert(i) ==
    /\ loader[i].pc = "load"
    /\ Ext(cliPaths[i]) = ExtJxl
    /\ \E c \in Djxl(disk, cliPaths[i], TmpFile(cliPaths[i])) :
           /\ disk' = c.disk
           /\ IF c.ok
              THEN /\ loader' = [loader EXCEPT ![i].pc = "decode"]
                   /\ UNCHANGED <<wgCount, lastLoadFailed>>
              ELSE LoaderError(i)
    /\ UNCHANGED <<image1, image2, image1Path, image2Path>>
    /\ LoaderFrame

\* goroutine i, LoadImage: imaging.Open on the path, or on the temporary
\* file with the deferred os.Remove of it
LoaderOpen(i) ==
    /\ \/ loader[i].pc = "load" /\ Ext(cliPaths[i]) # ExtJxl
       \/ loader[i].pc = "decode"
    /\ LET converted == loader[i].pc = "decode"
           file == IF converted THEN TmpFile(cliPaths[i]) ELSE cliPaths[i]
           o == Open(disk, file)
       IN  /\ disk' = IF converted THEN RemoveFile(disk, file) ELSE disk
           /\ IF o.err
              THEN LoaderError(i)
              ELSE /\ loader' = [loader EXCEPT ![i].pc = "stat", ![i].img = o.img]
                   /\ UNCHANGED <<wgCount, lastLoadFailed>>
    /\ UNCHANGED <<image1, image2, image1Path, image2Path>>
    /\ LoaderFrame

\* goroutine i without the Done() of the os.Stat error return
LoaderStore_NoDoneOnStatError(i) ==
    /\ loader[i].pc = "stat"
    /\ IF cliPaths[i] \notin DOMAIN disk
       THEN /\ loader' = [loader EXCEPT ![i].pc = "done"]
            /\ lastLoadFailed' = TRUE
            /\ UNCHANGED <<wgCount, image1, image2, image1Path, image2Path>>
       ELSE /\ IF i = 1
               THEN /\ image1Path' = cliPaths[i]
                    /\ image1' = Preview[loader[i].img]
                    /\ UNCHANGED <<image2, image2Path>>
               ELSE /\ image2Path' = cliPaths[i]
                    /\ image2' = Preview[loader[i].img]
                    /\ UNCHANGED <<image1, image1Path>>
            /\ LoaderDone(i)
            /\ lastLoadFailed' = FALSE
    /\ UNCHANGED disk
    /\ LoaderFrame

\* goroutine i, loadAndRenderImage after LoadImage: os.Stat, the rescaled
\* image and the path stored in the globals of its index, Done()
LoaderStore(i) ==
    /\ loader[i].pc = "stat"
    /\ IF cliPaths[i] \notin DOMAIN disk
       THEN /\ LoaderError(i)
            /\ UNCHANGED <<image1, image2, image1Path, image2Path>>
       ELSE /\ IF i = 1
               THEN /\ image1Path' = cliPaths[i]
                    /\ image1' = Preview[loader[i].img]
                    /\ UNCHANGED <<image2, image2Path>>
               ELSE /\ image2Path' = cliPaths[i]
                    /\ image2' = Preview[loader[i].img]
                    /\ UNCHANGED <<image1, image1Path>>
            /\ LoaderDone(i)
            /\ lastLoadFailed' = FALSE
    /\ UNCHANGED disk
    /\ LoaderFrame

\* the variables no handler of the window writes
HandlerFrame ==
    UNCHANGED <<pc, diffVars, boundsVars, cropVars, loadVars, sliderVars, useTrash,
                trashInstalled, cliPaths, wgCount, loader>>

\* renderComparison(): the nil dereference of ComputeImageDiffFast ends the
\* process; otherwise the result is displayed
CallRenderComparison(i1, i2, mono) ==
    IF i1 = Nil \/ i2 = Nil
    THEN mainPc' = "panicked" /\ UNCHANGED rendered
    ELSE mainPc' = "running" /\ rendered' = RenderComparison(i1, i2, mono)

\* main after loadingWaitGroup.Wait() returned: renderComparison(), then
\* mainWindow.ShowAndRun()
MainAfterWait ==
    /\ mainPc = "wait"
    /\ wgCount = 0
    /\ CallRenderComparison(image1, image2, showMonochrome)
    /\ UNCHANGED <<disk, image1, image2, image1Path, image2Path, showMonochrome,
                   ignoredFile, deleteAttempts>>
    /\ UNCHANGED <<lastLoadFailed, drop>>
    /\ HandlerFrame

\* the variables a dropped file's load does not write before it returns
DropFrame ==
    /\ UNCHANGED <<showMonochrome, ignoredFile, deleteAttempts>>
    /\ HandlerFrame

\* the drop of the file at path onto the first (index 0) or second (index 1)
\* image: the handler calls loadAndRenderImage(path, index, false) on the UI
\* goroutine, which runs no other handler until the call returns
OnDropped(path, index) ==
    /\ mainPc = "running"
    /\ mainPc' = "dropping"
    /\ drop' = [pc |-> "load", path |-> path, index |-> index, img |-> Nil]
    /\ UNCHANGED <<disk, image1, image2, image1Path, image2Path, rendered,
                   lastLoadFailed>>
    /\ DropFrame

\* an error return that also stores the path of the file
DropError_StoresPath ==
    /\ drop' = IdleDrop
    /\ mainPc' = "running"
    /\ lastLoadFailed' = TRUE
    /\ image1Path' = (IF drop.index = 0 THEN drop.path ELSE image1Path)
    /\ image2Path' = (IF drop.index = 0 THEN image2Path ELSE drop.path)
    /\ UNCHANGED <<image1, image2, rendered>>

\* an error return of the dropped file's load: dialog.ShowError, nothing
\* stored, no render
DropError ==
    /\ drop' = IdleDrop
    /\ mainPc' = "running"
    /\ lastLoadFailed' = TRUE
    /\ UNCHANGED <<image1, image2, image1Path, image2Path, rendered>>

\* the dropped file's load, LoadImage on a .jxl path: the run of djxl
DropConvert ==
    /\ mainPc = "dropping"
    /\ drop.pc = "load"
    /\ Ext(drop.path) = ExtJxl
    /\ \E c \in Djxl(disk, drop.path, TmpFile(drop.path)) :
           /\ disk' = c.disk
           /\ IF c.ok
              THEN /\ drop' = [drop EXCEPT !.pc = "decode"]
                   /\ UNCHANGED <<mainPc, lastLoadFailed, image1, image2,
                                  image1Path, image2Path, rendered>>
              ELSE DropError
    /\ DropFrame

\* the dropped file's load, LoadImage: imaging.Open on the path, or on the
\* temporary file with the deferred os.Remove of it
DropOpen ==
    /\ mainPc = "dropping"
    /\ \/ drop.pc = "load" /\ Ext(drop.path) # ExtJxl
       \/ drop.pc = "decode"
    /\ LET converted == drop.pc = "decode"
           file == IF converted THEN TmpFile(drop.path) ELSE drop.path
           o == Open(disk, file)
       IN  /\ disk' = IF converted THEN RemoveFile(disk, file) ELSE disk
           /\ IF o.err
              THEN DropError
              ELSE /\ drop' = [drop EXCEPT !.pc = "stat", !.img = o.img]
                   /\ UNCHANGED <<mainPc, lastLoadFailed, image1, image2,
                                  image1Path, image2Path, rendered>>
    /\ DropFrame

\* the dropped file's load after LoadImage: os.Stat, the rescaled image and
\* the path stored in the globals of its index, renderComparison()
DropStore ==
    /\ mainPc = "dropping"
    /\ drop.pc = "stat"
    /\ IF drop.path \notin DOMAIN disk
       THEN DropError
       ELSE /\ drop' = IdleDrop
            /\ lastLoadFailed' = FALSE
            /\ IF drop.index = 0
               THEN /\ image1Path' = drop.path
                    /\ image1' = Preview[drop.img]
                    /\ UNCHANGED <<image2, image2Path>>
                    /\ CallRenderComparison(image1', image2, showMonochrome)
               ELSE /\ image2Path' = drop.path
                    /\ image2' = Preview[drop.img]
                    /\ UNCHANGED <<image1, image1Path>>
                    /\ CallRenderComparison(image1, image2', showMonochrome)
    /\ UNCHANGED disk
    /\ DropFrame

\* the button "Toggle Monochrome Diff" and main's onMonochromeChange
ToggleMonochrome ==
    /\ mainPc = "running"
    /\ showMonochrome' = ~showMonochrome
    /\ IF image1 # Nil /\ image2 # Nil
       THEN CallRenderComparison(image1, image2, showMonochrome')
       ELSE UNCHANGED <<mainPc, rendered>>
    /\ UNCHANGED <<disk, image1, image2, image1Path, image2Path, ignoredFile,
                   deleteAttempts>>
    /\ UNCHANGED <<lastLoadFailed, drop>>
    /\ HandlerFrame

\* onImageDeleted(imageNumber): util.MoveFileToTrash or os.Remove on the
\* image's path; the window is closed when the deletion succeeded
OnImageDeleted(imageNumber) ==
    /\ mainPc = "running"
    /\ LET image == IF imageNumber = 2 THEN image2 ELSE image1
           path == IF imageNumber = 2 THEN image2Path ELSE image1Path
           tool == IF useTrash THEN "trash" ELSE "remove"
       IN  IF image = Nil \/ path = <<>>
           THEN UNCHANGED <<deleteAttempts, disk, mainPc>>
           ELSE /\ deleteAttempts' = deleteAttempts \cup {<<tool, path>>}
                /\ IF path \in DOMAIN disk /\ (useTrash => trashInstalled)
                   THEN disk' = RemoveFile(disk, path) /\ mainPc' = "closed"
                   ELSE UNCHANGED <<disk, mainPc>>
    /\ UNCHANGED <<image1, image2, image1Path, image2Path, showMonochrome,
                   rendered, ignoredFile>>
    /\ UNCHANGED <<lastLoadFailed, drop>>
    /\ HandlerFrame

\* onImageIgnored without its check for nil images
OnImageIgnored_NoNilCheck ==
    /\ mainPc = "running"
    /\ ignoredFile' = ignoredFile \o IgnoreLine(image1Path, image2Path)
    /\ mainPc' = "closed"
    /\ UNCHANGED <<disk, image1, image2, image1Path, image2Path, showMonochrome,
                   rendered, deleteAttempts>>
    /\ UNCHANGED <<lastLoadFailed, drop>>
    /\ HandlerFrame

\* onImageIgnored(): with both images loaded, the line is appended to
\* ignored_images.txt and the window closed; when os.OpenFile fails nothing
\* is written, when WriteString fails less than the line is, and the window
\* stays
OnImageIgnored ==
    /\ mainPc = "running"
    /\ IF image1 = Nil \/ image2 = Nil
       THEN UNCHANGED <<ignoredFile, mainPc>>
       ELSE LET line == IgnoreLine(image1Path, image2Path)
            IN  \/ ignoredFile' = ignoredFile \o line /\ mainPc' = "closed"
                \/ UNCHANGED <<ignoredFile, mainPc>>
                \/ /\ Len(ignoredFile) + Len(line) <= MaxIgnoredLen
                   /\ ignoredFile' = ignoredFile \o SubSeq(line, 1, Len(line) - 1)
                   /\ UNCHANGED mainPc
    /\ UNCHANGED <<disk, image1, image2, image1Path, image2Path, showMonochrome,
                   rendered, deleteAttempts>>
    /\ UNCHANGED <<lastLoadFailed, drop>>
    /\ HandlerFrame

\* another process removes a file while the program runs
FileRemovedExternally(path) ==
    /\ mainPc \in {"wait", "running", "dropping"}
    /\ path \in DOMAIN disk
    /\ disk' = RemoveFile(disk, path)
    /\ UNCHANGED <<pc, diffVars, boundsVars, cropVars, loadVars, appVars, sliderVars>>

NextApp ==
    \/ Main
    \/ \E i \in 1 .. 2 : LoaderConvert(i)
    \/ \E i \in 1 .. 2 : LoaderOpen(i)
    \/ \E i \in 1 .. 2 : LoaderStore(i)
    \/ MainAfterWait
    \/ \E path \in AppPaths, index \in 0 .. 1 : OnDropped(path, index)
    \/ DropConvert
    \/ DropOpen
    \/ DropStore
    \/ ToggleMonochrome
    \/ \E imageNumber \in 1 .. 2 : OnImageDeleted(imageNumber)
    \/ OnImageIgnored
    \/ \E path \in {PathA, PathB} : FileRemovedExternally(path)

SpecApp == InitApp /\ [][NextApp]_vars

\* the command-line start: the program up to mainWindow.ShowAndRun()
StartStep ==
    \/ Main
    \/ \E i \in 1 .. 2 : LoaderConvert(i)
    \/ \E i \in 1 .. 2 : LoaderOpen(i)
    \/ \E i \in 1 .. 2 : LoaderStore(i)
    \/ MainAfterWait

NextStart ==
    \/ StartStep
    \/ \E path \in {PathA, PathB} : FileRemovedExternally(path)

\* the Go scheduler runs a goroutine that can run, and the external
\* converter ends: a step of the start that stays possible is taken
SpecStart == InitApp /\ [][NextStart]_vars /\ WF_vars(StartStep)

(***************************************************************************)
(* Properties of the application, checked under SpecApp and SpecStart.     *)
(***************************************************************************)
\* a.png is loaded as the first image, b.png as the second, and the
\* comparison of the two is displayed
BothScenarioImagesCompared ==
    /\ mainPc = "running"
    /\ image1 # Nil /\ image1Path = PathA
    /\ image2 # Nil /\ image2Path = PathB
    /\ rendered.mae # "none"

\* C12 (as claimed): with the 800 x 600 image loaded first and the 400 x 300
\* image of another picture second, the comparison resamples the second
\* image to 800 x 600 and reports 480000 pixels and a metric above 0.
C12_ComparedAtFirstImageSize ==
    BothScenarioImagesCompared =>
        /\ rendered.resized
        /\ rendered.pixelCount = 480000
        /\ rendered.mae = "positive"

\* what the program does in that scenario: both images are compared as the
\* 400 x 300 previews that loadAndRenderImage stored
C12_ComparesThePreviews ==
    BothScenarioImagesCompared =>
        /\ image1.w = 400 /\ image1.h = 300
        /\ image2.w = 400 /\ image2.h = 300
        /\ ~rendered.resized
        /\ rendered.pixelCount = 120000
        /\ rendered.mae = "positive"

LoadsStarted == loader[1].pc # "idle" /\ loader[2].pc # "idle"

\* each goroutine has called Done() once when it has returned and not
\* before, the counter is 2 less the calls, and main is past Wait() only
\* when both goroutines have returned
C16_DoneOncePerLoad ==
    LoadsStarted =>
        /\ \A i \in 1 .. 2 :
              loader[i].signals = IF loader[i].pc = "done" THEN 1 ELSE 0
        /\ wgCount = 2 - (loader[1].signals + loader[2].signals)
        /\ mainPc # "wait" => (loader[1].pc = "done" /\ loader[2].pc = "done")

\* C16: on the command-line start renderComparison is invoked only after
\* both loads have finished, each load calls Done() exactly once on every
\* outcome, and main's Wait() always ends.
C16_RenderAfterBothLoads ==
    /\ []C16_DoneOncePerLoad
    /\ (mainPc = "wait") ~> (mainPc # "wait")

\* C16's case: both loads of the command-line start succeeded, each called
\* Done() once, and main went on to renderComparison.
C16_Witness ==
    /\ cliPaths = <<PathA, PathB>>
    /\ loader[1].pc = "done" /\ loader[1].signals = 1
    /\ loader[2].pc = "done" /\ loader[2].signals = 1
    /\ wgCount = 0
    /\ mainPc = "running"
    /\ rendered.mae = "positive"

\* C17 (as claimed): renderComparison never runs with image1 or image2 nil,
\* so the process never aborts.
C17_RenderOnlyWithBothImages == mainPc # "panicked"

\* C18 (as claimed): every Ignore taken while both images are loaded appends
\* exactly the one line <image1Path>:<image2Path>\n to ignored_images.txt
\* after its earlier content; an Ignore with an image missing appends nothing
\* and does not close the window.
C18_EveryIgnoreAppendsTheLine ==
    [][OnImageIgnored =>
          IF image1 # Nil /\ image2 # Nil
          THEN ignoredFile' =
                   ignoredFile \o image1Path \o <<":">> \o image2Path \o <<"\n">>
          ELSE ignoredFile' = ignoredFile /\ mainPc' = "running"]_vars

\* C18 (amended): an Ignore with both images loaded either appends the one
\* line <image1Path>:<image2Path>\n to ignored_images.txt after its earlier
\* content and closes the window, or -- when os.OpenFile or WriteString
\* fails -- appends less than the line, keeps the earlier content and leaves
\* the window open; an Ignore with an image missing appends nothing and does
\* not close the window.
C18_IgnoreAppendsOneLine ==
    [][OnImageIgnored =>
          IF image1 # Nil /\ image2 # Nil
          THEN \/ /\ ignoredFile' =
                        ignoredFile \o image1Path \o <<":">> \o image2Path \o <<"\n">>
                  /\ mainPc' = "closed"
               \/ /\ mainPc' = "running"
                  /\ Len(ignoredFile') < Len(ignoredFile) + Len(image1Path)
                                            + Len(image2Path) + 2
                  /\ SubSeq(ignoredFile', 1, Len(ignoredFile)) = ignoredFile
          ELSE ignoredFile' = ignoredFile /\ mainPc' = "running"]_vars

\* C18's case: the line a.png:b.png was appended after the earlier line.
C18_Witness ==
    /\ mainPc = "closed"
    /\ image1Path = PathA /\ image2Path = PathB
    /\ ignoredFile = <<"p", ":", "q", "\n",
                       "a", ".", "p", "n", "g", ":", "b", ".", "p", "n", "g", "\n">>

\* C19: with -use-trash and no trash tool, main returns at its start and no
\* deletion is ever attempted.
C19_NoDeletionWithoutTrashTool ==
    (useTrash /\ ~trashInstalled) =>
        (deleteAttempts = {} /\ mainPc \in {"start", "exited"})

\* C19's case: main has returned because the trash tool is missing, with
\* both images named on the command line.
C19_Witness ==
    /\ useTrash /\ ~trashInstalled
    /\ cliPaths = <<PathA, PathB>>
    /\ mainPc = "exited"
    /\ deleteAttempts = {}

\* the comparison state and what is rendered stay as they are
ComparisonKept ==
    /\ UNCHANGED <<image1, image2, image1Path, image2Path, rendered>>
    /\ mainPc' # "panicked"

\* a load for the side of index (0 or 1) leaves the other side alone and,
\* when it succeeded, has stored its path
OnlyOwnSide(path, index) ==
    IF index = 0
    THEN UNCHANGED <<image2, image2Path>> /\ image1Path' = path
                                           /\ image1' # Nil
    ELSE UNCHANGED <<image1, image1Path>> /\ image2Path' = path
                                           /\ image2' # Nil

\* C22: a load that fails (LoadImage or os.Stat) leaves image1, image2,
\* image1Path and image2Path as they were and renders no comparison; a load
\* that succeeds changes the image and the path of its own side only.  The
\* steps of a load before its return change none of them.
C22_FailedLoadChangesNothing ==
    [][ /\ (DropConvert \/ DropOpen \/ DropStore) =>
               IF drop'.pc = "idle" /\ ~lastLoadFailed'
               THEN OnlyOwnSide(drop.path, drop.index)
               ELSE ComparisonKept
        /\ \A i \in 1 .. 2 :
               (LoaderConvert(i) \/ LoaderOpen(i) \/ LoaderStore(i)) =>
                   IF loader'[i].pc = "done" /\ ~lastLoadFailed'
                   THEN OnlyOwnSide(cliPaths[i], i - 1)
                            /\ UNCHANGED <<rendered, mainPc>>
                   ELSE ComparisonKept ]_vars

\* a load has just failed on a program that shows a comparison of two
\* loaded images
C22_Witness ==
    /\ lastLoadFailed /\ mainPc = "running"
    /\ image1 # Nil /\ image2 # Nil
    /\ rendered.mae = "positive"

\* ---------------------------------------------------------------------
\* The slider tab: slider.OnChanged arms a 10 ms timer under debounceMutex;
\* the timer's callback runs on a goroutine of its own, outside the mutex,
\* and writes the crop into Objects[1]. renderComparison empties and refills
\* the container on the UI goroutine.
\* ---------------------------------------------------------------------

\* the slider changes of one run
MaxChanges == 3
\* the ratio of the crop that Compare shows
CompareRatio == 50
\* slider positions, in hundredths
SliderVals == {25, 50, 75}

\* the tab as NewLayerSliderTab leaves it: an empty container, the slider
\* in the middle, no timer
InitSlider ==
    /\ pc = "ready"
    /\ DiffIdle
    /\ BoundsIdle
    /\ CropIdle
    /\ LoadIdle
    /\ AppIdle
    /\ SliderIdle
    /\ disk = <<>>

SliderFrame ==
    UNCHANGED <<pc, diffVars, boundsVars, cropVars, disk, loadVars, appVars>>

\* debounceTimer.Stop(): a timer that has not fired never will; one whose
\* callback has started is not affected
StopTimer(rs) ==
    IF rs = <<>> THEN rs
    ELSE [rs EXCEPT ![Len(rs)].st = IF @ = "pending" THEN "stopped" ELSE @]

\* slider.OnChanged(val), on the UI goroutine
OnChanged(val) ==
    /\ ~sliderCrashed
    /\ renderPc = "idle"
    /\ Len(reqs) < MaxChanges
    /\ sliderValue' = val
    /\ IF objects < 2
       THEN UNCHANGED <<reqs, rerendered>>
       ELSE /\ reqs' = Append(StopTimer(reqs), [val |-> val, st |-> "pending"])
            /\ rerendered' = FALSE
    /\ UNCHANGED <<objects, renderPc, shown, renderMae, sliderCrashed>>
    /\ UNCHANGED refreshQueue
    /\ SliderFrame

\* the timer of request n expires: its callback starts, looks at Objects[1]
\* and computes the crop for the value it captured
TimerFires(n) ==
    /\ ~sliderCrashed
    /\ n \in DOMAIN reqs
    /\ reqs[n].st = "pending"
    /\ IF objects < 2
       THEN sliderCrashed' = TRUE /\ UNCHANGED reqs
       ELSE /\ reqs' = [reqs EXCEPT ![n].st = "running"]
            /\ UNCHANGED sliderCrashed
    /\ UNCHANGED <<objects, renderPc, sliderValue, shown, rerendered,
                   renderMae>>
    /\ UNCHANGED refreshQueue
    /\ SliderFrame

\* the callback of request n stores its crop in Objects[1].Image and queues
\* the refresh
CallbackApplies(n) ==
    /\ ~sliderCrashed
    /\ n \in DOMAIN reqs
    /\ reqs[n].st = "running"
    /\ IF objects < 2
       THEN sliderCrashed' = TRUE /\ UNCHANGED <<reqs, shown, refreshQueue>>
       ELSE /\ shown' = [val |-> reqs[n].val, by |-> n]
            /\ reqs' = [reqs EXCEPT ![n].st = IF n = Len(reqs)
                                                THEN "applied"
                                                ELSE "appliedSuperseded"]
            /\ refreshQueue' = Append(refreshQueue, n)
            /\ UNCHANGED sliderCrashed
    /\ UNCHANGED <<objects, renderPc, sliderValue, rerendered, renderMae>>
    /\ SliderFrame

\* the UI goroutine, between two handlers, runs the oldest closure queued:
\* canvas.Refresh(Objects[1])
RefreshRuns ==
    /\ ~sliderCrashed
    /\ renderPc = "idle"
    /\ refreshQueue # <<>>
    /\ refreshQueue' = Tail(refreshQueue)
    /\ sliderCrashed' = (objects < 2)
    /\ UNCHANGED <<objects, renderPc, sliderValue, reqs, shown, rerendered,
                   renderMae>>
    /\ SliderFrame

\* the signs mae can have: NaN for images without pixels, zero for the same
\* pixels
MaeSigns == {"NaN", "zero", "positive"}

\* renderComparison with a RemoveAll that leaves the container as it is
RemoveAll_KeepsObjects(sign) ==
    /\ ~sliderCrashed
    /\ renderPc = "idle"
    /\ renderMae' = sign
    /\ IF sign = "positive"
       THEN renderPc' = "removed" /\ UNCHANGED rerendered
       ELSE renderPc' = "idle" /\ rerendered' = TRUE
    /\ UNCHANGED <<objects, shown, sliderValue, reqs, sliderCrashed>>
    /\ UNCHANGED refreshQueue
    /\ SliderFrame

\* renderComparison on the UI goroutine, up to layerSliderTab.RemoveAll():
\* the difference is computed and the container is emptied; with mae > 0
\* Compare follows, otherwise the render ends here
RemoveAll(sign) ==
    /\ ~sliderCrashed
    /\ renderPc = "idle"
    /\ renderMae' = sign
    /\ objects' = 0
    /\ shown' = NoCrop
    /\ IF sign = "positive"
       THEN renderPc' = "removed" /\ UNCHANGED rerendered
       ELSE renderPc' = "idle" /\ rerendered' = TRUE
    /\ UNCHANGED <<sliderValue, reqs, sliderCrashed>>
    /\ UNCHANGED refreshQueue
    /\ SliderFrame

\* layerSliderTab.Compare(...) up to imageContainer.Add(comp1): the first
\* image is in the container
CompareFirst ==
    /\ ~sliderCrashed
    /\ renderPc = "removed"
    /\ objects' = objects + 1
    /\ renderPc' = "added"
    /\ UNCHANGED <<sliderValue, reqs, shown, rerendered, renderMae,
                   sliderCrashed>>
    /\ UNCHANGED refreshQueue
    /\ SliderFrame

\* layerSliderTab.Compare(...), imageContainer.Add(comp2): the second image,
\* cropped at one half, is in the container; the render ends
CompareSecond ==
    /\ ~sliderCrashed
    /\ renderPc = "added"
    /\ objects' = objects + 1
    /\ shown' = [val |-> CompareRatio, by |-> 0]
    /\ renderPc' = "idle"
    /\ rerendered' = TRUE
    /\ UNCHANGED <<sliderValue, reqs, renderMae, sliderCrashed>>
    /\ UNCHANGED refreshQueue
    /\ SliderFrame

NextSlider ==
    \/ \E val \in SliderVals : OnChanged(val)
    \/ \E n \in 1..MaxChanges : TimerFires(n)
    \/ \E n \in 1..MaxChanges : CallbackApplies(n)
    \/ RefreshRuns
    \/ \E sign \in MaeSigns : RemoveAll(sign)
    \/ CompareFirst
    \/ CompareSecond

SpecSlider == InitSlider /\ [][NextSlider]_vars

\* no timer is armed, no callback is running, no refresh is queued and no
\* render is under way
SliderQuiet ==
    /\ renderPc = "idle"
    /\ refreshQueue = <<>>
    /\ \A n \in DOMAIN reqs : reqs[n].st \notin {"pending", "running"}

\* no callback of a request that a later one had replaced stores its crop
NoSupersededApplied ==
    \A n \in DOMAIN reqs : reqs[n].st # "appliedSuperseded"

\* once nothing is armed or running, the crop shown is the one for the last
\* slider value (as long as the comparison has not been rendered again since)
QuietShowsLast ==
    (SliderQuiet /\ reqs # <<>> /\ ~rerendered /\ objects = 2)
        => shown.val = sliderValue

\* C15 (as claimed): the debounce is latest-wins: the result of a superseded
\* request is never applied, and once the slider is quiet the crop shown is
\* the one computed for the last slider value
C15_LatestWins ==
    ~sliderCrashed => (NoSupersededApplied /\ QuietShowsLast)

\* what the timer does give: a request replaced before its timer fired never
\* runs, so nothing it computed is shown
C15_StoppedNeverShown ==
    \A n \in DOMAIN reqs : reqs[n].st = "stopped" => shown.by # n

\* C21 (as claimed): whenever a slider callback indexes Objects[1] the
\* container holds at least two objects, so no callback ever indexes out of
\* range, whatever RemoveAll and Compare do between the slider change and
\* the timer firing
C21_IndexInRange == ~sliderCrashed

\* a renderComparison has run to its end and none is under way
Rendered == renderPc = "idle" /\ renderMae # "none"

\* C24: after every renderComparison the slider tab's container holds
\* exactly two objects when mae is above 0 and none otherwise, however many
\* comparisons came before
C24_TwoObjectsOrNone ==
    Rendered => objects = (IF renderMae = "positive" THEN 2 ELSE 0)

\* a comparison of differing images rendered over an earlier one, on which
\* the slider had been moved
C24_Witness ==
    /\ Rendered /\ renderMae = "positive" /\ objects = 2
    /\ reqs # <<>> /\ rerendered

====
